---- MODULE Spec2Model ----
(***************************************************************************)
(* The SATN and PSQL text formatters of crates/sats/src/satn.rs.           *)
(*                                                                         *)
(* Text is a sequence of one-character strings.  A serializer call takes   *)
(* the writer it formats into and returns a result [w, r]: the writer      *)
(* after the call and "ok", "err" (a sink write failed, Rust's `?` path)   *)
(* or "panic" (an index out of bounds).                                    *)
(***************************************************************************)
EXTENDS Integers, Sequences, FiniteSets, TLC

(* ------------------------------ bounds --------------------------------- *)

\* Longest product (record / tuple) drawn as an input.
MaxFields == 2
\* Longest array drawn as an input.
MaxElems == 2
\* The sink may fail at its k-th write call, k in 0..MaxFault, or never.
MaxFault == 3
\* The write_str calls made on a writer on its own.
MaxWrites == 3
\* The deepest indentation such a writer is brought to.
MaxDepth == 2

(* ------------------------------- text ---------------------------------- *)

NL == "\n"
QUOTE == "\""
\* const SEP of every EntryWrapper the formatters build.
SEP == ","
INDENT_UNIT == <<" ", " ", " ", " ">>

None == << >>
Some(x) == << x >>

DigitChars == <<"0", "1", "2", "3", "4", "5", "6", "7", "8", "9", "a", "b", "c", "d", "e", "f">>

RECURSIVE Decimal(_)
\* Display of a non-negative integer: base 10, no padding.
Decimal(n) == IF n < 10 THEN << DigitChars[n + 1] >>
              ELSE Decimal(n \div 10) \o << DigitChars[(n % 10) + 1] >>

RECURSIVE LeBytes(_, _)
LeBytes(v, n) == IF n = 0 THEN << >> ELSE << v % 256 >> \o LeBytes(v \div 256, n - 1)

Reverse(s) == [i \in 1..Len(s) |-> s[Len(s) + 1 - i]]

\* uN::to_be_bytes for a value of n bytes.
to_be_bytes(v, n) == Reverse(LeBytes(v, n))

RECURSIVE hex_encode(_)
\* hex::encode: two lowercase hex digits per byte.
hex_encode(bytes) ==
    IF bytes = << >> THEN << >>
    ELSE << DigitChars[(Head(bytes) \div 16) + 1], DigitChars[(Head(bytes) % 16) + 1] >>
         \o hex_encode(Tail(bytes))

RECURSIVE Concat(_)
Concat(ss) == IF ss = << >> THEN << >> ELSE Head(ss) \o Concat(Tail(ss))

RECURSIVE Join(_, _)
Join(ss, sep) == IF ss = << >> THEN << >>
                 ELSE IF Len(ss) = 1 THEN ss[1]
                 ELSE ss[1] \o sep \o Join(Tail(ss), sep)

RECURSIVE Spaces(_)
Spaces(n) == IF n = 0 THEN << >> ELSE << " " >> \o Spaces(n - 1)

Count(s, c) == Cardinality({i \in 1..Len(s) : s[i] = c})

RECURSIVE split_inclusive(_)
\* str::split_inclusive('\n'): the maximal pieces ending in a newline, then
\* the rest when it is not empty; no piece for the empty string.
split_inclusive(s) ==
    IF s = << >> THEN << >>
    ELSE LET nls == {i \in 1..Len(s) : s[i] = NL}
         IN IF nls = {} THEN << s >>
            ELSE LET i == CHOOSE j \in nls : \A k \in nls : j <= k
                 IN << SubSeq(s, 1, i) >> \o split_inclusive(SubSeq(s, i + 1, Len(s)))

ends_with_newline(s) == s # << >> /\ s[Len(s)] = NL

(* ------------------------------- sink ---------------------------------- *)

\* The fmt::Formatter under the writer: it takes whole write_str calls and
\* fails from its fault-th call on.  `late` counts the calls made after the
\* first failure.
NewSink(fault) == [out |-> << >>, writes |-> 0, fault |-> fault, failed |-> FALSE, late |-> 0]

Formatter_write_str(sink, s) ==
    IF sink.failed THEN [sink |-> [sink EXCEPT !.late = @ + 1], r |-> "err"]
    ELSE IF sink.fault = Some(sink.writes) THEN [sink |-> [sink EXCEPT !.failed = TRUE], r |-> "err"]
    ELSE [sink |-> [sink EXCEPT !.out = @ \o s, !.writes = @ + 1], r |-> "ok"]

(* ------------------------------ Writer --------------------------------- *)

Ok(w) == [w |-> w, r |-> "ok"]
Panic(w) == [w |-> w, r |-> "panic"]
\* A result that also carries a formatter (or a cursor) in field f.
With(res, f) == [w |-> res.w, r |-> res.r, f |-> f]

\* Writer::with: flat, or indented from IndentState {indent: 0, on_newline: true}
\* when the `#` flag is set.  `open` and `closed` are history: the depths at
\* which the entry calls still running were made, and for each entry call
\* that returned Ok the depth before and after it.  `strs` is history too:
\* what each serialize_str call put into the sink; so is `fields`: what each
\* element of a PsqlNamedFormatter was serialized with.
Writer_with(alternate, sink) ==
    [pretty |-> alternate, indent |-> 0, on_newline |-> TRUE, sink |-> sink,
     open |-> << >>, closed |-> {}, strs |-> {}, fields |-> {}]

SinkResult(w, x) == [w |-> [w EXCEPT !.sink = x.sink], r |-> x.r]

\* self.f.write_str(s) on the formatter under the writer.
RawWrite(w, s) == SinkResult(w, Formatter_write_str(w.sink, s))

RECURSIVE WriteIndent(_, _)
ThenWriteIndent(res, n) == IF res.r # "ok" THEN res ELSE WriteIndent(res.w, n)

\* for _ in 0..indent { f.write_str("    ")? }
WriteIndent(w, n) ==
    IF n = 0 THEN Ok(w) ELSE ThenWriteIndent(RawWrite(w, INDENT_UNIT), n - 1)

\* write_str that forgets to update on_newline.
ThenFragment_on_newline_kept(res, s) ==
    IF res.r # "ok" THEN res ELSE RawWrite(res.w, s)

\* self.state.on_newline = s.ends_with('\n'); self.f.write_str(s)?
ThenFragment(res, s) ==
    IF res.r # "ok" THEN res
    ELSE RawWrite([res.w EXCEPT !.on_newline = ends_with_newline(s)], s)

RECURSIVE WriteFragments(_, _)
ThenFragments(res, frags) == IF res.r # "ok" THEN res ELSE WriteFragments(res.w, frags)

\* The loop of IndentedWriter::write_str over the pieces of the text.
WriteFragments(w, frags) ==
    IF frags = << >> THEN Ok(w)
    ELSE ThenFragments(
             ThenFragment(IF w.on_newline THEN WriteIndent(w, w.indent) ELSE Ok(w), Head(frags)),
             Tail(frags))

IndentedWriter_write_str(w, s) == WriteFragments(w, split_inclusive(s))

Writer_write_str(w, s) ==
    IF w.pretty THEN IndentedWriter_write_str(w, s) ELSE RawWrite(w, s)

\* fmt::Write::write_char: a write_str of the one character.
write_char(w, c) == Writer_write_str(w, << c >>)

ThenChar(res, c) == IF res.r # "ok" THEN res ELSE write_char(res.w, c)

RECURSIVE write_fmt(_, _)
ThenWrite(res, pieces) == IF res.r # "ok" THEN res ELSE write_fmt(res.w, pieces)

\* write!: one write_str per literal piece and per argument, in order,
\* stopping at the first error.
write_fmt(w, pieces) ==
    IF pieces = << >> THEN Ok(w)
    ELSE ThenWrite(Writer_write_str(w, Head(pieces)), Tail(pieces))

\* A write! made with the formatter res.f kept beside the writer.
ThenWriteF(res, pieces) ==
    IF res.r # "ok" THEN res ELSE With(write_fmt(res.w, pieces), res.f)

(* --------------------------- EntryWrapper ------------------------------ *)

EntryOpen(w) == [w EXCEPT !.open = Append(@, w.indent)]

EntryDone(w) ==
    [w EXCEPT !.open = SubSeq(@, 1, Len(@) - 1),
              !.closed = @ \cup {[before |-> w.open[Len(w.open)], after |-> w.indent]}]

\* f.state.indent += 1
ThenIndent(res) == IF res.r # "ok" THEN res ELSE Ok([res.w EXCEPT !.indent = @ + 1])

\* entry that forgets to restore the depth.
ThenDedent_forgotten(res) == IF res.r # "ok" THEN res ELSE Ok(EntryDone(res.w))

\* f.state.indent -= 1; Ok(())
ThenDedent(res) == IF res.r # "ok" THEN res ELSE Ok(EntryDone([res.w EXCEPT !.indent = @ - 1]))

\* entry with the separator written before the first entry too.
entry_before_always_sep(w, has_fields) ==
    IF w.pretty
    THEN ThenIndent(IF ~has_fields THEN write_char(EntryOpen(w), NL) ELSE Ok(EntryOpen(w)))
    ELSE ThenChar(write_char(EntryOpen(w), SEP), " ")

\* EntryWrapper::entry up to the call of the closure: the result holds the
\* writer the closure gets.
entry_before(w, has_fields) ==
    IF w.pretty
    THEN ThenIndent(IF ~has_fields THEN write_char(EntryOpen(w), NL) ELSE Ok(EntryOpen(w)))
    ELSE IF has_fields THEN ThenChar(write_char(EntryOpen(w), SEP), " ")
    ELSE Ok(EntryOpen(w))

\* entry going on to the separator when the closure has failed.
entry_after_keep_going(res) ==
    IF res.w.pretty THEN ThenDedent(ThenChar(write_char(res.w, SEP), NL))
    ELSE IF res.r # "ok" THEN res
    ELSE Ok(EntryDone(res.w))

\* EntryWrapper::entry from the return of the closure, whose result is res.
entry_after(res) ==
    IF res.r # "ok" THEN res
    ELSE IF res.w.pretty THEN ThenDedent(ThenChar(write_char(res.w, SEP), NL))
    ELSE Ok(EntryDone(res.w))

\* The same two halves for a formatter res.f, whose has_fields they read.
EntryBeforeF(res) ==
    IF res.r # "ok" THEN res ELSE With(entry_before(res.w, res.f.has_fields), res.f)

EntryAfterF(res) == With(entry_after(res), res.f)

(* ------------------------ algebraic types ------------------------------ *)

IDENTITY_TAG == <<"_", "_", "i", "d", "e", "n", "t", "i", "t", "y", "_", "_">>
CONNECTION_ID_TAG == <<"_", "_", "c", "o", "n", "n", "e", "c", "t", "i", "o", "n", "_", "i", "d", "_", "_">>
TIMESTAMP_TAG == <<"_", "_", "t", "i", "m", "e", "s", "t", "a", "m", "p", "_", "m", "i", "c", "r", "o", "s", "_", "s", "i", "n", "c", "e", "_", "u", "n", "i", "x", "_", "e", "p", "o", "c", "h", "_", "_">>
TIME_DURATION_TAG == <<"_", "_", "t", "i", "m", "e", "_", "d", "u", "r", "a", "t", "i", "o", "n", "_", "m", "i", "c", "r", "o", "s", "_", "_">>

ReservedTags == {Some(IDENTITY_TAG), Some(CONNECTION_ID_TAG), Some(TIMESTAMP_TAG), Some(TIME_DURATION_TAG)}

Prim(k) == [k |-> k]
ProductTypeElement(name, ty) == [name |-> name, algebraic_type |-> ty]
ProductType(elements) == [k |-> "Product", elements |-> elements]
ArrayType(ty) == [k |-> "Array", elem_ty |-> ty]
SumType(variants) == [k |-> "Sum", variants |-> variants]

\* A product of exactly one element, named `tag`, of primitive type `inner`.
is_newtype(p, tag, inner) ==
    /\ Len(p.elements) = 1
    /\ p.elements[1].name = Some(tag)
    /\ p.elements[1].algebraic_type.k = inner

ProductType_is_identity(p) == is_newtype(p, IDENTITY_TAG, "U256")
ProductType_is_connection_id(p) == is_newtype(p, CONNECTION_ID_TAG, "U128")
ProductType_is_timestamp(p) == is_newtype(p, TIMESTAMP_TAG, "I64")
ProductType_is_time_duration(p) == is_newtype(p, TIME_DURATION_TAG, "I64")

as_product(t) == IF t.k = "Product" THEN Some(t) ELSE None

is_identity(t) == t.k = "Product" /\ ProductType_is_identity(t)
is_connection_id(t) == t.k = "Product" /\ ProductType_is_connection_id(t)
is_timestamp(t) == t.k = "Product" /\ ProductType_is_timestamp(t)
is_time_duration(t) == t.k = "Product" /\ ProductType_is_time_duration(t)

\* Display of Timestamp::from_micros_since_unix_epoch(v), for 0 <= v < 10^6:
\* the calendar text of the epoch plus v microseconds.
Pad6(v) == LET d == Decimal(v) IN [i \in 1..(6 - Len(d)) |-> "0"] \o d
Timestamp_display(v) ==
    <<"1", "9", "7", "0", "-", "0", "1", "-", "0", "1", "T", "0", "0", ":", "0", "0", ":", "0", "0">> \o (IF v = 0 THEN << >> ELSE << "." >> \o Pad6(v)) \o <<"+", "0", "0", ":", "0", "0">>

\* Display of TimeDuration::from_micros(v), for 0 <= v < 10^6: sign, seconds,
\* and the microseconds in six digits.
TimeDuration_display(v) == <<"+", "0", ".">> \o Pad6(v)

(* ---------------------------- PsqlType --------------------------------- *)

PsqlType(tuple, field, idx) == [tuple |-> tuple, field |-> field, idx |-> idx]

\* use_fmt with the timestamp checks made before the hex checks.
use_fmt_timestamp_first(ty, name) ==
    IF \/ ProductType_is_timestamp(ty.tuple)
       \/ is_timestamp(ty.field.algebraic_type)
       \/ name = Some(TIMESTAMP_TAG)
    THEN "Timestamp"
    ELSE IF \/ ProductType_is_identity(ty.tuple)
            \/ ProductType_is_connection_id(ty.tuple)
            \/ is_identity(ty.field.algebraic_type)
            \/ is_connection_id(ty.field.algebraic_type)
            \/ name = Some(IDENTITY_TAG)
            \/ name = Some(CONNECTION_ID_TAG)
    THEN "Hex"
    ELSE IF \/ ProductType_is_time_duration(ty.tuple)
            \/ is_time_duration(ty.field.algebraic_type)
            \/ name = Some(TIME_DURATION_TAG)
    THEN "Duration"
    ELSE "Satn"

\* PsqlType::use_fmt: "Hex", "Timestamp", "Duration" or "Satn".
use_fmt(ty, name) ==
    IF \/ ProductType_is_identity(ty.tuple)
       \/ ProductType_is_connection_id(ty.tuple)
       \/ is_identity(ty.field.algebraic_type)
       \/ is_connection_id(ty.field.algebraic_type)
       \/ name = Some(IDENTITY_TAG)
       \/ name = Some(CONNECTION_ID_TAG)
    THEN "Hex"
    ELSE IF \/ ProductType_is_timestamp(ty.tuple)
            \/ is_timestamp(ty.field.algebraic_type)
            \/ name = Some(TIMESTAMP_TAG)
    THEN "Timestamp"
    ELSE IF \/ ProductType_is_time_duration(ty.tuple)
            \/ is_time_duration(ty.field.algebraic_type)
            \/ name = Some(TIME_DURATION_TAG)
    THEN "Duration"
    ELSE "Satn"

is_special(fmt) == fmt # "Satn"

(* --------------------------- serializers ------------------------------- *)

\* A serializer is SatnFormatter {f} or PsqlFormatter {fmt: SatnFormatter {f}, ty};
\* the writer f is passed beside it.
SatnFormatter == [kind |-> "satn"]
PsqlFormatter(ty) == [kind |-> "psql", ty |-> ty]

\* serialize_bool .. serialize_f64 of SatnFormatter: write!(self, "{v}").
Satn_serialize_num(w, v) == write_fmt(w, << Decimal(v) >>)

\* History: what the serialize_str call made on writer w0 put into the sink.
LogStr(w0, v, res) ==
    IF res.r # "ok" THEN res
    ELSE Ok([res.w EXCEPT !.strs = @ \cup
              {[v |-> v, pretty |-> w0.pretty, indent |-> w0.indent, on_newline |-> w0.on_newline,
                nesting |-> Len(w0.open),
                written |-> SubSeq(res.w.sink.out, Len(w0.sink.out) + 1, Len(res.w.sink.out))]}])

\* serialize_str that escapes the double quotes of the contents.
Escaped(v) == Concat([i \in 1..Len(v) |-> IF v[i] = QUOTE THEN << "\\", QUOTE >> ELSE << v[i] >>])
Satn_serialize_str_escaping(w, v) ==
    LogStr(w, v, write_fmt(w, << << QUOTE >>, Escaped(v), << QUOTE >> >>))

Satn_serialize_str(w, v) == LogStr(w, v, write_fmt(w, << << QUOTE >>, v, << QUOTE >> >>))

Satn_serialize_bytes(w, v) == write_fmt(w, << <<"0", "x">>, hex_encode(v) >>)

\* The ArrayFormatter is returned in field f of the result.
Satn_serialize_array(w) ==
    With(write_fmt(w, << << "[" >> >>), [has_fields |-> FALSE])

\* The NamedFormatter is returned in field f of the result.
Satn_serialize_named_product(w) ==
    With(write_fmt(w, << << "(" >> >>), [has_fields |-> FALSE, idx |-> 0])

Satn_serialize_seq_product(w) == Satn_serialize_named_product(w)

Psql_serialize_bytes(w, v) == Satn_serialize_bytes(w, v)

Psql_serialize_u128(ty, w, v) ==
    IF use_fmt(ty, None) = "Hex" THEN Psql_serialize_bytes(w, to_be_bytes(v, 16))
    ELSE Satn_serialize_num(w, v)

Psql_serialize_u256(ty, w, v) ==
    IF use_fmt(ty, None) = "Hex" THEN Psql_serialize_bytes(w, to_be_bytes(v, 32))
    ELSE Satn_serialize_num(w, v)

Psql_serialize_i64(ty, w, v) ==
    CASE use_fmt(ty, None) = "Duration" -> write_fmt(w, << TimeDuration_display(v) >>)
      [] use_fmt(ty, None) = "Timestamp" -> write_fmt(w, << Timestamp_display(v) >>)
      [] OTHER -> Satn_serialize_num(w, v)

\* PsqlNamedFormatter::new, from PsqlFormatter::serialize_named_product.
PsqlNamedFormatter_new(ty, w) ==
    With(Ok(w), [has_fields |-> FALSE, idx |-> 0, ty |-> ty, start |-> TRUE, use_fmt |-> "Satn"])

Psql_serialize_named_product(ty, w) == PsqlNamedFormatter_new(ty, w)

Psql_serialize_seq_product(ty, w) == Psql_serialize_named_product(ty, w)

\* serialize_array opening a PostgreSQL array literal.
Psql_serialize_array_braces(w) ==
    With(write_fmt(w, << << "{" >> >>), [has_fields |-> FALSE])

Psql_serialize_array(w) == Satn_serialize_array(w)

\* The closure of NamedFormatter::serialize_element up to elem.serialize:
\* the name, or the index if unnamed, then " = ".
NamedFormatter_label(res, name) ==
    ThenWriteF(ThenWriteF(res, << IF name # None THEN name[1] ELSE Decimal(res.f.idx) >>),
               << <<" ", "=", " ">> >>)

\* The closure of SatnFormatter::serialize_variant up to value.serialize.
variant_label(res, tag, name) ==
    ThenWrite(IF name # None THEN ThenWrite(res, << name[1] >>) ELSE res, << <<" ", "=", " ">> >>)

\* if self.start { write!(f, "(")?; self.start = false; }
StartDone(res) == IF res.r # "ok" THEN res ELSE [res EXCEPT !.f.start = FALSE]
PsqlNamedFormatter_open(res) ==
    IF res.r = "ok" /\ res.f.start THEN StartDone(ThenWriteF(res, << << "(" >> >>)) ELSE res

\* The closure of PsqlNamedFormatter::serialize_element up to the nested
\* cursor: nothing for a special format, else "(" at the start, the name or
\* the cursor's idx, and " = ".
PsqlNamedFormatter_label(res, name) ==
    IF res.r # "ok" \/ is_special(res.f.use_fmt) THEN res
    ELSE ThenWriteF(ThenWriteF(PsqlNamedFormatter_open(res),
                               << IF name # None THEN name[1] ELSE Decimal(res.f.ty.idx) >>),
                    << <<" ", "=", " ">> >>)

\* "Is a nested product type?": the cursor handed to the element; a panic
\* when self.f.idx is no index of the product.
nested_cursor(f) ==
    LET p == as_product(f.ty.field.algebraic_type)
    IN IF p # None
       THEN IF f.idx < Len(p[1].elements)
            THEN Some(PsqlType(p[1], p[1].elements[f.idx + 1], f.idx))
            ELSE None
       ELSE Some(f.ty)

RECURSIVE Serialize(_, _, _)
RECURSIVE ArrayLoop(_, _)
RECURSIVE ProductLoop(_, _, _, _)

ThenSerialize(res, ser, s) == IF res.r # "ok" THEN res ELSE Serialize(ser, res.w, s)

ThenSerializeF(res, ser, s) ==
    IF res.r # "ok" THEN res ELSE With(Serialize(ser, res.w, s), res.f)

\* History: the cursor self.f.ty the formatter res.f consulted for the
\* element, its running index and decision, and what the element's own
\* serialization, whose result is out, put into the sink.
LogField(res, elem, out) ==
    [out EXCEPT !.w.fields = @ \cup
        {[ty |-> res.f.ty, idx |-> res.f.idx, use_fmt |-> res.f.use_fmt, elem |-> elem,
          pretty |-> res.w.pretty, nesting |-> Len(res.w.open), r |-> out.r,
          written |-> SubSeq(out.w.sink.out, Len(res.w.sink.out) + 1, Len(out.w.sink.out))]}]

\* elem.serialize(PsqlFormatter {fmt: SatnFormatter {f}, ty: &PsqlType {tuple, field, idx}})
PsqlNamedFormatter_elem(res, elem) ==
    IF res.r # "ok" THEN res
    ELSE IF nested_cursor(res.f) = None THEN LogField(res, elem, With(Panic(res.w), res.f))
    ELSE LogField(res, elem, ThenSerializeF(res, PsqlFormatter(nested_cursor(res.f)[1]), elem))

serialize_num(ser, w, k, v) ==
    IF ser.kind = "psql"
    THEN CASE k = "U128" -> Psql_serialize_u128(ser.ty, w, v)
           [] k = "U256" -> Psql_serialize_u256(ser.ty, w, v)
           [] k = "I64" -> Psql_serialize_i64(ser.ty, w, v)
           [] OTHER -> Satn_serialize_num(w, v)
    ELSE Satn_serialize_num(w, v)

ThenEntryBefore(res, has_fields) ==
    IF res.r # "ok" THEN res ELSE entry_before(res.w, has_fields)

\* SatnFormatter::serialize_variant.
Satn_serialize_variant(w, tag, name, value) ==
    ThenWrite(
        entry_after(
            ThenSerialize(
                variant_label(ThenEntryBefore(write_fmt(w, << << "(" >> >>), FALSE), tag, name),
                SatnFormatter, value)),
        << << ")" >> >>)

Psql_serialize_variant(w, tag, name, value) == Satn_serialize_variant(w, tag, name, value)

\* self.has_fields = true, after the closure whatever its result.
HasFields(res) == [res EXCEPT !.f.has_fields = TRUE]

\* The serialize_element operators take the formatter in res.f and return
\* it, as it is after the call, in field f of their result.
ArrayFormatter_serialize_element(res, elem) ==
    HasFields(EntryAfterF(ThenSerializeF(EntryBeforeF(res), SatnFormatter, elem)))

ArrayFormatter_end(res) == ThenWrite(res, << << "]" >> >>)

\* serialize_element that forgets to advance the index.
NamedAdvance_forgotten(res) == res

\* self.idx += 1, before `res?`.
NamedAdvance(res) == [res EXCEPT !.f.idx = @ + 1]

NamedFormatter_serialize_element(res, name, elem) ==
    NamedAdvance(HasFields(EntryAfterF(
        ThenSerializeF(NamedFormatter_label(EntryBeforeF(res), name), SatnFormatter, elem))))

NamedFormatter_end(res) == ThenWrite(res, << << ")" >> >>)

\* self.use_fmt = self.f.ty.use_fmt(name)
PsqlUseFmt(res, name) == [res EXCEPT !.f.use_fmt = use_fmt(res.f.ty, name)]

\* "Advance to the next field", before `res?`.
PsqlAdvance(res) ==
    [res EXCEPT !.f.idx = IF is_special(res.f.use_fmt) THEN @ ELSE @ + 1]

PsqlNamedFormatter_serialize_element(res, name, elem) ==
    PsqlAdvance(HasFields(EntryAfterF(
        PsqlNamedFormatter_elem(
            PsqlNamedFormatter_label(EntryBeforeF(PsqlUseFmt(res, name)), name), elem))))

PsqlNamedFormatter_end(res) ==
    IF res.r # "ok" THEN res
    ELSE IF ~is_special(res.f.use_fmt) THEN ThenWrite(res, << << ")" >> >>)
    ELSE Ok(res.w)

(* ------------------- values driving a serializer ----------------------- *)

\* What a value hands to the serializer: a number of kind k, a string, an
\* array of elements, a product (named: serialize_named_product with each
\* element's name; otherwise serialize_seq_product), or a sum variant.
\* Each loop stops at the first element that does not return Ok.
ArrayLoop(res, elems) ==
    IF res.r # "ok" \/ elems = << >> THEN res
    ELSE ArrayLoop(ArrayFormatter_serialize_element(res, Head(elems)), Tail(elems))

ProductLoop(ser, res, named, elements) ==
    IF res.r # "ok" \/ elements = << >> THEN res
    ELSE ProductLoop(ser,
                     IF ser.kind = "psql"
                     THEN PsqlNamedFormatter_serialize_element(
                              res, IF named THEN Head(elements).name ELSE None, Head(elements).value)
                     ELSE NamedFormatter_serialize_element(
                              res, IF named THEN Head(elements).name ELSE None, Head(elements).value),
                     named, Tail(elements))

SerializeArray(ser, w, s) ==
    ArrayFormatter_end(
        ArrayLoop(IF ser.kind = "psql" THEN Psql_serialize_array(w) ELSE Satn_serialize_array(w),
                  s.elems))

SerializeProduct(ser, w, s) ==
    IF ser.kind = "psql"
    THEN PsqlNamedFormatter_end(
             ProductLoop(ser,
                         IF s.named THEN Psql_serialize_named_product(ser.ty, w)
                         ELSE Psql_serialize_seq_product(ser.ty, w),
                         s.named, s.elements))
    ELSE NamedFormatter_end(
             ProductLoop(ser,
                         IF s.named THEN Satn_serialize_named_product(w)
                         ELSE Satn_serialize_seq_product(w),
                         s.named, s.elements))

SerializeVariant(ser, w, s) ==
    IF ser.kind = "psql" THEN Psql_serialize_variant(w, s.tag, s.name, s.value)
    ELSE Satn_serialize_variant(w, s.tag, s.name, s.value)

Serialize(ser, w, s) ==
    CASE s.k = "Str" -> Satn_serialize_str(w, s.s)
      [] s.k = "Array" -> SerializeArray(ser, w, s)
      [] s.k = "Product" -> SerializeProduct(ser, w, s)
      [] s.k = "Sum" -> SerializeVariant(ser, w, s)
      [] OTHER -> serialize_num(ser, w, s.k, s.v)

(* ---------------------- values and their types ------------------------- *)

\* An input is a pair [ty, v] of an algebraic type and a value of it.
TV(ty, v) == [ty |-> ty, v |-> v]
Num(k, n) == TV(Prim(k), [k |-> k, v |-> n])
Str(s) == TV(Prim("Str"), [k |-> "Str", s |-> s])

\* The product of the fields fs, named by names.
Product(names, fs) ==
    TV(ProductType([i \in 1..Len(fs) |-> ProductTypeElement(names[i], fs[i].ty)]),
       [k |-> "Product", elements |-> [i \in 1..Len(fs) |-> fs[i].v]])

Array(ty, es) == TV(ArrayType(ty), [k |-> "Array", elems |-> [i \in 1..Len(es) |-> es[i].v]])

Sum(variants, tag, payload) == TV(SumType(variants), [k |-> "Sum", tag |-> tag, value |-> payload.v])

Identity(n) == Product(<< Some(IDENTITY_TAG) >>, << Num("U256", n) >>)
ConnectionId(n) == Product(<< Some(CONNECTION_ID_TAG) >>, << Num("U128", n) >>)
Timestamp(n) == Product(<< Some(TIMESTAMP_TAG) >>, << Num("I64", n) >>)
TimeDuration(n) == Product(<< Some(TIME_DURATION_TAG) >>, << Num("I64", n) >>)

RECURSIVE TypedView(_, _)
\* A value with its type drives the serializer with the names of the type.
TypedView(ty, v) ==
    CASE v.k = "Product" ->
           [k |-> "Product", named |-> TRUE,
            elements |-> [i \in 1..Len(v.elements) |->
                            [name |-> ty.elements[i].name,
                             value |-> TypedView(ty.elements[i].algebraic_type, v.elements[i])]]]
      [] v.k = "Array" ->
           [k |-> "Array", elems |-> [i \in 1..Len(v.elems) |-> TypedView(ty.elem_ty, v.elems[i])]]
      [] v.k = "Sum" ->
           [k |-> "Sum", tag |-> v.tag, name |-> ty.variants[v.tag + 1].name,
            value |-> TypedView(ty.variants[v.tag + 1].algebraic_type, v.value)]
      [] OTHER -> v

RECURSIVE UntypedView(_)
\* A bare value drives the serializer positionally: serialize_seq_product,
\* and no variant name.
UntypedView(v) ==
    CASE v.k = "Product" ->
           [k |-> "Product", named |-> FALSE,
            elements |-> [i \in 1..Len(v.elements) |->
                            [name |-> None, value |-> UntypedView(v.elements[i])]]]
      [] v.k = "Array" ->
           [k |-> "Array", elems |-> [i \in 1..Len(v.elems) |-> UntypedView(v.elems[i])]]
      [] v.k = "Sum" ->
           [k |-> "Sum", tag |-> v.tag, name |-> None, value |-> UntypedView(v.value)]
      [] OTHER -> v

View(in) == IF in.typed THEN TypedView(in.ty, in.v) ELSE UntypedView(in.v)

(* ------------------------------ BSATN ---------------------------------- *)

NumWidth(k) == CASE k = "I32" -> 4 [] k = "I64" -> 8 [] k = "U128" -> 16 [] k = "U256" -> 32

RECURSIVE bsatn_encode(_)
RECURSIVE bsatn_encode_all(_)
\* The compact binary encoding: little-endian numbers, length-prefixed
\* strings and arrays, concatenated product elements, tag byte then payload.
bsatn_encode(v) ==
    CASE v.k = "Str" -> LeBytes(Len(v.s), 4) \o v.s
      [] v.k = "Array" -> LeBytes(Len(v.elems), 4) \o bsatn_encode_all(v.elems)
      [] v.k = "Product" -> bsatn_encode_all(v.elements)
      [] v.k = "Sum" -> << v.tag >> \o bsatn_encode(v.value)
      [] OTHER -> LeBytes(v.v, NumWidth(v.k))

bsatn_encode_all(vs) ==
    IF Len(vs) = 0 THEN << >> ELSE bsatn_encode(Head(vs)) \o bsatn_encode_all(Tail(vs))

RECURSIVE FromLeBytes(_)
FromLeBytes(bs) == IF Len(bs) = 0 THEN 0 ELSE Head(bs) + 256 * FromLeBytes(Tail(bs))

Drop(s, n) == SubSeq(s, n + 1, Len(s))

RECURSIVE bsatn_decode(_, _)
RECURSIVE bsatn_decode_elements(_, _, _)
RECURSIVE bsatn_decode_n(_, _, _, _)
\* Decoding against a type: the value in field v, the unread bytes in rest.
bsatn_decode(ty, bs) ==
    CASE ty.k = "Str" ->
           LET n == FromLeBytes(SubSeq(bs, 1, 4))
           IN [v |-> [k |-> "Str", s |-> SubSeq(bs, 5, 4 + n)], rest |-> Drop(bs, 4 + n)]
      [] ty.k = "Array" ->
           LET n == FromLeBytes(SubSeq(bs, 1, 4))
               d == bsatn_decode_n(ty.elem_ty, n, Drop(bs, 4), << >>)
           IN [v |-> [k |-> "Array", elems |-> d.vs], rest |-> d.rest]
      [] ty.k = "Product" ->
           LET d == bsatn_decode_elements(ty.elements, bs, << >>)
           IN [v |-> [k |-> "Product", elements |-> d.vs], rest |-> d.rest]
      [] ty.k = "Sum" ->
           LET d == bsatn_decode(ty.variants[bs[1] + 1].algebraic_type, Drop(bs, 1))
           IN [v |-> [k |-> "Sum", tag |-> bs[1], value |-> d.v], rest |-> d.rest]
      [] OTHER ->
           [v |-> [k |-> ty.k, v |-> FromLeBytes(SubSeq(bs, 1, NumWidth(ty.k)))],
            rest |-> Drop(bs, NumWidth(ty.k))]

bsatn_decode_elements(elements, bs, acc) ==
    IF Len(elements) = 0 THEN [vs |-> acc, rest |-> bs]
    ELSE LET d == bsatn_decode(Head(elements).algebraic_type, bs)
         IN bsatn_decode_elements(Tail(elements), d.rest, Append(acc, d.v))

bsatn_decode_n(ty, n, bs, acc) ==
    IF n = 0 THEN [vs |-> acc, rest |-> bs]
    ELSE LET d == bsatn_decode(ty, bs)
         IN bsatn_decode_n(ty, n - 1, d.rest, Append(acc, d.v))

\* Serializer::serialize_bsatn as SatnFormatter has it: decode the buffer
\* to a value, then serialize that value into self.
Satn_serialize_bsatn(w, ty, bsatn) ==
    Serialize(SatnFormatter, w, UntypedView(bsatn_decode(ty, bsatn).v))

\* Serializer::serialize_bsatn_in_chunks as SatnFormatter has it: the
\* chunks are joined into one buffer first.
Satn_serialize_bsatn_in_chunks(w, ty, chunks) ==
    Satn_serialize_bsatn(w, ty, Concat(chunks))

Psql_serialize_bsatn(pty, w, ty, bsatn) == Satn_serialize_bsatn(w, ty, bsatn)

Psql_serialize_bsatn_in_chunks(pty, w, ty, chunks) == Satn_serialize_bsatn_in_chunks(w, ty, chunks)

(* ------------------------------ inputs --------------------------------- *)

SeqsUpTo(S, n) == UNION {[1..k -> S] : k \in 0..n}

FieldNames == <<"a", "b", "c", "d", "e", "f", "g", "h">>
\* The i-th field's name under a naming pattern.
FieldName(pattern, i) ==
    CASE pattern = "named" -> Some(<< FieldNames[i] >>)
      [] pattern = "mixed" -> IF i % 2 = 1 THEN None ELSE Some(<< FieldNames[i] >>)
      [] pattern = "positional" -> None

Patterns == {"named", "mixed", "positional"}

\* A field of an input record: its value, and a reserved tag as its name
\* when it has one.
Field(tv, tag) == [tv |-> tv, tag |-> tag]

Record(pattern, fs) ==
    Product([i \in 1..Len(fs) |-> IF fs[i].tag # None THEN fs[i].tag ELSE FieldName(pattern, i)],
            [i \in 1..Len(fs) |-> fs[i].tv])

Leaves == {Num("I32", 7), Num("I32", 12), Num("I64", 5), Num("U128", 2), Num("U256", 1),
           Str(<<"a">>), Str(<< "a", NL, "b" >>), Str(<< QUOTE, NL >>), Str(<< >>)}

Specials == {Identity(1), ConnectionId(2), Timestamp(5), TimeDuration(5)}

Inner == Record("named", << Field(Num("I32", 7), None) >>)

Variants(ty) ==
    << ProductTypeElement(Some(<<"S", "o", "m", "e">>), ty), ProductTypeElement(Some(<<"N", "o", "n", "e">>), ProductType(<< >>)),
       ProductTypeElement(None, ty), ProductTypeElement(None, ty) >>

\* The fields of the input records of every length ...
CoreFields ==
    {Field(x, None) : x \in {Num("I32", 7), Str(<< "a", NL, "b" >>), Inner, Identity(1), Timestamp(5)}}
    \cup {Field(Num("U256", 1), Some(IDENTITY_TAG))}

\* ... and those of the records of one and two fields only.
ExtraFields ==
    {Field(x, None) : x \in {ConnectionId(2), TimeDuration(5),
                              Array(Prim("U256"), << Num("U256", 1), Num("U256", 2) >>),
                              Sum(Variants(Prim("U256")), 0, Num("U256", 1))}}
    \cup {Field(Num("I64", 5), Some(TIMESTAMP_TAG))}

Records(patterns) ==
    {Record(p, fs) : p \in patterns, fs \in SeqsUpTo(CoreFields, MaxFields)}
    \cup UNION {{Record(p, << x >>), Record(p, << x, y >>), Record(p, << y, x >>)} :
                  p \in patterns, x \in ExtraFields,
                  y \in {Field(Num("I32", 7), None), Field(Identity(1), None)}}

\* Arrays are homogeneous: the element values of one element type.
ElemSets ==
    {{Num("I32", 7), Num("I32", 12)},
     {Str(<< "a", NL, "b" >>), Str(<<"a">>)},
     {Inner},
     {Array(Prim("I32"), << >>), Array(Prim("I32"), << Num("I32", 7) >>)},
     {Identity(1)}}

Arrays == UNION {{Array((CHOOSE e \in E : TRUE).ty, es) : es \in SeqsUpTo(E, MaxElems)} : E \in ElemSets}

Sums == {Sum(Variants(x.ty), tag, x) : tag \in {0, 2, 3},
         x \in {Num("I32", 5), Str(<< "a", NL, "b" >>), Inner, Identity(1)}}

\* Aggregates nested in an aggregate.
Nested(patterns) ==
    {Array(a.ty, << a >>) : a \in Arrays}
    \cup {Record(p, << Field(Num("I32", 7), None), Field(x, None) >>) :
            p \in patterns, x \in {y \in Records(patterns) : Len(y.ty.elements) <= 1}}

Values(patterns) ==
    Leaves \cup Specials \cup Records(patterns) \cup Arrays \cup Sums \cup Nested(patterns)

\* The value comes with its type (names and all), or bare; a bare value
\* hands no name to the serializer, so one naming pattern is enough for it.
Inputs == {[ty |-> x.ty, v |-> x.v, typed |-> TRUE] : x \in Values(Patterns)}
          \cup {[ty |-> x.ty, v |-> x.v, typed |-> FALSE] : x \in Values({"positional"})}

\* The schema cursors a caller seeds fmt_psql with: at a field of the value's
\* own record type, or at the column of a row type that holds the value.
Row(ty) == ProductType(<< ProductTypeElement(Some(<<"n">>), Prim("I32")),
                          ProductTypeElement(Some(<<"c", "o", "l">>), ty) >>)
Column(ty) == ProductType(<< ProductTypeElement(Some(<<"c", "o", "l">>), ty) >>)

Cursors(ty) ==
    {PsqlType(Column(ty), Column(ty).elements[1], 0), PsqlType(Row(ty), Row(ty).elements[2], 1)}
    \cup (IF ty.k = "Product"
          THEN {PsqlType(ty, ty.elements[i], i - 1) : i \in {j \in 1..Len(ty.elements) : j = 1 \/ j = Len(ty.elements)}}
          ELSE {})

Faults == {None} \cup {Some(k) : k \in 0..MaxFault}

(* --------------------------- state machine ----------------------------- *)

VARIABLES
    input,   \* the value a caller formats, [ty, v, typed]
    call,    \* the call made: [op, alternate, fault, ty, cut]
    w,       \* the writer when the call returned
    r,       \* the call's result: "ok", "err" or "panic"
    pc       \* "ready" or "done"

vars == << input, call, w, r, pc >>

NoWriter == Writer_with(FALSE, NewSink(None))

Init ==
    /\ input \in Inputs
    /\ call = [op |-> "none"]
    /\ w = NoWriter
    /\ r = "ok"
    /\ pc = "ready"

Return(c, res) ==
    /\ call' = c
    /\ w' = res.w
    /\ r' = res.r
    /\ pc' = "done"
    /\ UNCHANGED input

\* Satn::fmt, with `#` (alternate) or without.
Satn_fmt(alternate, fault, in) ==
    Serialize(SatnFormatter, Writer_with(alternate, NewSink(fault)), View(in))

\* Satn::fmt_psql.
Satn_fmt_psql(alternate, fault, ty, in) ==
    Serialize(PsqlFormatter(ty), Writer_with(alternate, NewSink(fault)), View(in))

fmt ==
    /\ pc = "ready"
    /\ \E alternate \in BOOLEAN, fault \in Faults :
          Return([op |-> "fmt", alternate |-> alternate, fault |-> fault],
                 Satn_fmt(alternate, fault, input))

fmt_psql ==
    /\ pc = "ready"
    /\ \E alternate \in BOOLEAN, fault \in Faults, ty \in Cursors(input.ty) :
          Return([op |-> "fmt_psql", alternate |-> alternate, fault |-> fault, ty |-> ty],
                 Satn_fmt_psql(alternate, fault, ty, input))

\* The places where the buffer is cut in two chunks.
Cuts(bsatn) == {0, Len(bsatn) \div 2}

Chunks(bsatn, cut) == << SubSeq(bsatn, 1, cut), Drop(bsatn, cut) >>

serialize_bsatn ==
    /\ pc = "ready"
    /\ \E alternate \in BOOLEAN :
          Return([op |-> "serialize_bsatn", alternate |-> alternate, fault |-> None],
                 Satn_serialize_bsatn(Writer_with(alternate, NewSink(None)), input.ty,
                                      bsatn_encode(input.v)))

serialize_bsatn_in_chunks ==
    /\ pc = "ready"
    /\ \E alternate \in BOOLEAN, cut \in Cuts(bsatn_encode(input.v)) :
          Return([op |-> "serialize_bsatn_in_chunks", alternate |-> alternate, fault |-> None, cut |-> cut],
                 Satn_serialize_bsatn_in_chunks(Writer_with(alternate, NewSink(None)), input.ty,
                                                Chunks(bsatn_encode(input.v), cut)))

psql_serialize_bsatn ==
    /\ pc = "ready"
    /\ \E alternate \in BOOLEAN, ty \in Cursors(input.ty) :
          Return([op |-> "psql_serialize_bsatn", alternate |-> alternate, fault |-> None, ty |-> ty],
                 Psql_serialize_bsatn(ty, Writer_with(alternate, NewSink(None)), input.ty,
                                      bsatn_encode(input.v)))

psql_serialize_bsatn_in_chunks ==
    /\ pc = "ready"
    /\ \E alternate \in BOOLEAN, ty \in Cursors(input.ty), cut \in Cuts(bsatn_encode(input.v)) :
          Return([op |-> "psql_serialize_bsatn_in_chunks", alternate |-> alternate, fault |-> None,
                  ty |-> ty, cut |-> cut],
                 Psql_serialize_bsatn_in_chunks(ty, Writer_with(alternate, NewSink(None)), input.ty,
                                                Chunks(bsatn_encode(input.v), cut)))

Next ==
    \/ fmt
    \/ fmt_psql
    \/ serialize_bsatn
    \/ serialize_bsatn_in_chunks
    \/ psql_serialize_bsatn
    \/ psql_serialize_bsatn_in_chunks

Spec == Init /\ [][Next]_vars

(* ------------------- PsqlType::use_fmt on its own ---------------------- *)

\* The record types a cursor is drawn from: the four special newtypes and the
\* records of two fields, special or not.
UseFmtTuples ==
    {x.ty : x \in Specials}
    \cup {Record("named", << Field(x, None), Field(y, None) >>).ty :
            x \in Specials \cup {Num("I32", 7)}, y \in Specials \cup {Num("I32", 7)}}

\* The cursors at a field of such a record.
UseFmtCursors ==
    UNION {{PsqlType(t, t.elements[i], i - 1) : i \in 1..Len(t.elements)} : t \in UseFmtTuples}

\* The names a serialize_element call passes: none, a reserved tag, another.
UseFmtNames == {None, Some(<<"a">>)} \cup ReservedTags

UseFmtInit ==
    /\ input \in {[ty |-> c, name |-> n] : c \in UseFmtCursors, n \in UseFmtNames}
    /\ call = [op |-> "none"]
    /\ w = NoWriter
    /\ r = "ok"
    /\ pc = "ready"

\* One call of PsqlType::use_fmt: r is the decision returned.
PsqlType_use_fmt ==
    /\ pc = "ready"
    /\ call' = [op |-> "use_fmt"]
    /\ r' = use_fmt(input.ty, input.name)
    /\ pc' = "done"
    /\ UNCHANGED << input, w >>

UseFmtSpec == UseFmtInit /\ [][PsqlType_use_fmt]_vars

(* -------------------- Writer::write_str on its own --------------------- *)

\* The texts written: empty, without a newline, a newline alone, newlines
\* in a row and in the middle.
WriterTexts == {<< >>, <<"a">>, << NL >>, <<"a", NL, NL, "b">>, << NL, "b", NL >>}

\* `input` is here the history of the write_str calls made: the depth each
\* was made at and its text.
WriterInit ==
    /\ input = << >>
    /\ call = [op |-> "none"]
    /\ w \in {Writer_with(alternate, NewSink(None)) : alternate \in BOOLEAN}
    /\ r = "ok"
    /\ pc = "ready"

\* One write_str call on the writer.
write_str ==
    /\ Len(input) < MaxWrites
    /\ r = "ok"
    /\ \E s \in WriterTexts :
          /\ call' = [op |-> "write_str"]
          /\ w' = Writer_write_str(w, s).w
          /\ r' = Writer_write_str(w, s).r
          /\ input' = Append(input, [indent |-> w.indent, s |-> s])
    /\ UNCHANGED pc

\* f.state.indent += 1, as EntryWrapper::entry does between writes.
indent ==
    /\ w.pretty /\ w.indent < MaxDepth /\ Len(input) < MaxWrites
    /\ call' = [op |-> "indent"]
    /\ w' = [w EXCEPT !.indent = @ + 1]
    /\ UNCHANGED << input, r, pc >>

\* f.state.indent -= 1.
dedent ==
    /\ w.pretty /\ w.indent > 0 /\ Len(input) < MaxWrites
    /\ call' = [op |-> "dedent"]
    /\ w' = [w EXCEPT !.indent = @ - 1]
    /\ UNCHANGED << input, r, pc >>

WriterNext ==
    \/ write_str
    \/ indent
    \/ dedent

WriterSpec == WriterInit /\ [][WriterNext]_vars

(* ------------------------------ claims --------------------------------- *)

Done == pc = "done"
Out == w.sink.out
FreshWriter(alternate) == Writer_with(alternate, NewSink(None))
BsatnOps == {"serialize_bsatn", "serialize_bsatn_in_chunks",
             "psql_serialize_bsatn", "psql_serialize_bsatn_in_chunks"}
PsqlOps == {"fmt_psql", "psql_serialize_bsatn", "psql_serialize_bsatn_in_chunks"}

\* The text the plain formatter writes for a serializable, in flat mode.
FlatText(s) == Serialize(SatnFormatter, FreshWriter(FALSE), s).w.sink.out

Contains(s, sub) == \E i \in 0..(Len(s) - Len(sub)) : SubSeq(s, i + 1, i + Len(sub)) = sub

IsSpecialType(t) ==
    is_identity(t) \/ is_connection_id(t) \/ is_timestamp(t) \/ is_time_duration(t)

\* The alternate rendering of a value of a special type: hex of the
\* big-endian bytes, timestamp text or duration text.
AltText(t, v) ==
    CASE is_identity(t) -> <<"0", "x">> \o hex_encode(to_be_bytes(v.elements[1].v, 32))
      [] is_connection_id(t) -> <<"0", "x">> \o hex_encode(to_be_bytes(v.elements[1].v, 16))
      [] is_timestamp(t) -> Timestamp_display(v.elements[1].v)
      [] is_time_duration(t) -> TimeDuration_display(v.elements[1].v)

\* The label of the i-th (one-based) field: its name, or its zero-based index.
Label(name, i) == IF name # None THEN name[1] ELSE Decimal(i - 1)

\* C1: in the SATN and in the PSQL formatter, with any schema cursor,
\* serialize_bsatn and serialize_bsatn_in_chunks write exactly the text that
\* serializing the decoded value through the same formatter writes.
C1_BsatnAsStructural ==
    (Done /\ call.op \in BsatnOps) =>
        LET decoded == UntypedView(bsatn_decode(input.ty, bsatn_encode(input.v)).v)
            structural == IF call.op \in PsqlOps
                          THEN Serialize(PsqlFormatter(call.ty), FreshWriter(call.alternate), decoded)
                          ELSE Serialize(SatnFormatter, FreshWriter(call.alternate), decoded)
        IN r = structural.r /\ Out = structural.w.sink.out

\* A record that mixes special fields and ordinary (32-bit integer) fields.
MixedRecord(in) ==
    /\ in.typed
    /\ in.ty.k = "Product"
    /\ \A i \in 1..Len(in.ty.elements) :
          /\ in.ty.elements[i].name \notin ReservedTags
          /\ IsSpecialType(in.ty.elements[i].algebraic_type) \/ in.ty.elements[i].algebraic_type.k = "I32"
    /\ \E i \in 1..Len(in.ty.elements) : IsSpecialType(in.ty.elements[i].algebraic_type)
    /\ \E i \in 1..Len(in.ty.elements) : in.ty.elements[i].algebraic_type.k = "I32"

MixedPieces(in) ==
    [i \in 1..Len(in.ty.elements) |->
        IF IsSpecialType(in.ty.elements[i].algebraic_type)
        THEN AltText(in.ty.elements[i].algebraic_type, in.v.elements[i])
        ELSE Label(in.ty.elements[i].name, i) \o <<" ", "=", " ">> \o Decimal(in.v.elements[i].v)]

NoParens(s) == SelectSeq(s, LAMBDA c : c \notin {"(", ")"})

\* C2: in PSQL flat mode, for a record that mixes special and ordinary fields
\* in any order, each special field is written as its bare alternate
\* rendering with no `name = ` tag and each ordinary field is written tagged
\* as `name = value` (record punctuation aside, the fields are joined by ", ").
C2_PerFieldDecision ==
    (Done /\ call.op = "fmt_psql" /\ ~call.alternate /\ call.fault = None /\ MixedRecord(input)) =>
        /\ r = "ok"
        /\ NoParens(Out) = Join(MixedPieces(input), << ",", " " >>)

\* An untagged record with a field of a special type, and a cursor seeded at
\* that record.
OuterWithSpecial(in, ty) ==
    /\ in.typed
    /\ in.ty.k = "Product"
    /\ ~IsSpecialType(in.ty)
    /\ \A i \in 1..Len(in.ty.elements) : in.ty.elements[i].name \notin ReservedTags
    /\ ty.tuple = in.ty
    /\ \E i \in 1..Len(in.ty.elements) : IsSpecialType(in.ty.elements[i].algebraic_type)

\* C3: in PSQL mode, with the cursor seeded at an untagged outer record, a
\* field whose declared type is a timestamp-, identity-, connection-id- or
\* duration-tagged record is rendered, at any field position, in the
\* alternate form of its own type.
C3_NestedOwnType ==
    (Done /\ call.op = "fmt_psql" /\ call.fault = None /\ OuterWithSpecial(input, call.ty)) =>
        /\ r = "ok"
        /\ \A i \in 1..Len(input.ty.elements) :
              IsSpecialType(input.ty.elements[i].algebraic_type) =>
                  Contains(Out, AltText(input.ty.elements[i].algebraic_type, input.v.elements[i]))

RECURSIVE PlainType(_)
\* No special type and no reserved tag anywhere in the type.
PlainType(t) ==
    CASE t.k = "Product" ->
           /\ ~IsSpecialType(t)
           /\ \A i \in 1..Len(t.elements) :
                 t.elements[i].name \notin ReservedTags /\ PlainType(t.elements[i].algebraic_type)
      [] t.k = "Array" -> PlainType(t.elem_ty)
      [] t.k = "Sum" -> \A i \in 1..Len(t.variants) : PlainType(t.variants[i].algebraic_type)
      [] OTHER -> TRUE

\* C4: for a value whose schema holds no special field, fmt_psql writes
\* exactly the text of the plain SATN formatter, in flat and in indented
\* mode, positional products and the empty product included.
C4_PlainAsSatn ==
    (Done /\ call.op = "fmt_psql" /\ call.fault = None /\ PlainType(input.ty)) =>
        /\ r = "ok"
        /\ Out = Satn_fmt(call.alternate, None, input).w.sink.out

IsProduct(in) == in.v.k = "Product"

\* The k-th entry `label = value` of the product at the root of the input.
ProductEntry(in, k) ==
    Label(IF in.typed THEN in.ty.elements[k].name ELSE None, k)
    \o <<" ", "=", " ">> \o FlatText(View(in).elements[k].value)

\* C5: in the plain formatter's flat mode a product of n fields is written as
\* "(", the n entries `label = value` joined by ", ", and ")", the label of
\* the k-th field being its name when it has one and the decimal zero-based
\* index k otherwise.
C5_FlatProduct ==
    (Done /\ call.op = "fmt" /\ ~call.alternate /\ r = "ok" /\ IsProduct(input)) =>
        Out = << "(" >>
              \o Join([k \in 1..Len(input.v.elements) |-> ProductEntry(input, k)], << ",", " " >>)
              \o << ")" >>

\* C5 witness: a flat product of at least two fields, one named and one
\* labelled by its index, has been written.
C5_Witness ==
    /\ Done /\ call.op = "fmt" /\ ~call.alternate /\ r = "ok" /\ IsProduct(input) /\ input.typed
    /\ Len(input.v.elements) >= 2
    /\ input.ty.elements[1].name = None
    /\ input.ty.elements[2].name # None

IsSum(in) == in.v.k = "Sum"

\* C6: serialize_variant(tag, name, value) in flat mode writes `(name = value)`
\* when a name is given and `(idx = value)`, idx the decimal variant tag, when
\* no name is given.
C6_FlatVariant ==
    (Done /\ call.op = "fmt" /\ ~call.alternate /\ r = "ok" /\ IsSum(input)) =>
        Out = << "(" >>
              \o (IF View(input).name # None THEN View(input).name[1] ELSE Decimal(input.v.tag))
              \o <<" ", "=", " ">> \o FlatText(View(input).value) \o << ")" >>

IsArray(in) == in.v.k = "Array"

\* C7: in flat mode an array of n elements is written as "[", the elements
\* joined by ", ", and "]": max(n-1, 0) separators, none leading or trailing
\* (counted on arrays of integers), and "[]" for the empty array.
C7_FlatArray ==
    (Done /\ call.op \in {"fmt", "fmt_psql"} /\ ~call.alternate /\ r = "ok" /\ IsArray(input)) =>
        /\ Out = << "[" >>
                 \o Join([k \in 1..Len(input.v.elems) |-> FlatText(View(input).elems[k])], << ",", " " >>)
                 \o << "]" >>
        /\ input.ty.elem_ty.k = "I32" =>
              Count(Out, SEP) = (IF Len(input.v.elems) = 0 THEN 0 ELSE Len(input.v.elems) - 1)
        /\ Len(input.v.elems) = 0 => Out = << "[", "]" >>

\* C7 witness: a flat array of at least two integers has been written.
C7_Witness ==
    /\ Done /\ call.op = "fmt" /\ ~call.alternate /\ r = "ok" /\ IsArray(input)
    /\ input.ty.elem_ty.k = "I32"
    /\ Len(input.v.elems) >= 2

RECURSIVE HasSum(_)
HasSum(v) ==
    CASE v.k = "Sum" -> TRUE
      [] v.k = "Array" -> \E i \in 1..Len(v.elems) : HasSum(v.elems[i])
      [] v.k = "Product" -> \E i \in 1..Len(v.elements) : HasSum(v.elements[i])
      [] OTHER -> FALSE

RECURSIVE AfterNewlines(_, _)
\* The text with pad put in after each of its newlines.
AfterNewlines(s, pad) ==
    IF s = << >> THEN << >>
    ELSE (IF Head(s) = NL THEN << NL >> \o pad ELSE << Head(s) >>) \o AfterNewlines(Tail(s), pad)

Quoted(s) == << QUOTE >> \o s \o << QUOTE >>

\* The layout of the entries of an aggregate opened at depth d: nothing when
\* there is none; else a newline, each entry on a line of its own behind
\* (d+1)*4 spaces and followed by the separator and a newline, and d*4
\* spaces for the closing delimiter.
IndentedEntries(entries, d) ==
    IF Len(entries) = 0 THEN << >>
    ELSE << NL >>
         \o Concat([k \in 1..Len(entries) |-> Spaces((d + 1) * 4) \o entries[k] \o << ",", NL >>])
         \o Spaces(d * 4)

RECURSIVE IndentedText(_, _)
\* The indented layout of a serializable (without sum variants) at depth d.
IndentedText(s, d) ==
    CASE s.k = "Str" -> AfterNewlines(Quoted(s.s), Spaces(d * 4))
      [] s.k = "Array" ->
           << "[" >>
           \o IndentedEntries([k \in 1..Len(s.elems) |-> IndentedText(s.elems[k], d + 1)], d)
           \o << "]" >>
      [] s.k = "Product" ->
           << "(" >>
           \o IndentedEntries([k \in 1..Len(s.elements) |->
                                 Label(IF s.named THEN s.elements[k].name ELSE None, k)
                                 \o <<" ", "=", " ">> \o IndentedText(s.elements[k].value, d + 1)], d)
           \o << ")" >>
      [] OTHER -> Decimal(s.v)

Pending(e) == IF e.pretty /\ e.on_newline THEN Spaces(e.indent * 4) ELSE << >>

\* C9 as claimed: serialize_str writes a double quote, the contents of the
\* string character for character with nothing inserted, removed or escaped,
\* and a double quote, for every string, at every depth, flat and indented.
C9_StrVerbatim ==
    Done => \A e \in w.strs : e.written = Pending(e) \o Quoted(e.v)

\* C9 amended: serialize_str writes a double quote, the contents and a double
\* quote with nothing removed or escaped; nothing is inserted in flat mode,
\* at depth 0, or when the contents hold no newline; in indented mode at
\* depth d >= 1 there are d*4 spaces after every newline of the contents.
C9_StrIndentedAfterNewline ==
    Done => \A e \in w.strs :
        /\ e.written = Pending(e)
                       \o (IF e.pretty THEN AfterNewlines(Quoted(e.v), Spaces(e.indent * 4))
                           ELSE Quoted(e.v))
        /\ (~e.pretty \/ e.indent = 0 \/ \A i \in 1..Len(e.v) : e.v[i] # NL) =>
              e.written = Pending(e) \o Quoted(e.v)

\* C9 witness: a string holding a newline has been written in indented mode
\* inside an aggregate.
C9_Witness ==
    /\ Done
    /\ \E e \in w.strs :
          e.pretty /\ e.indent >= 1 /\ e.nesting >= 1 /\ \E i \in 1..Len(e.v) : e.v[i] = NL

\* C10: once a write to the sink has failed during a top-level serialize call
\* (plain or PSQL, flat or indented), no further write is attempted on the
\* sink, and the call returns the error.
C10_FailFast ==
    Done => /\ w.sink.late = 0
            /\ w.sink.failed => r = "err"
            /\ r = "err" => w.sink.failed

\* C10 witness: a sink write has failed inside two enclosing entries and the
\* call has returned the error.
C10_Witness ==
    /\ Done /\ r = "err" /\ w.sink.failed
    /\ Len(w.open) >= 2
    /\ Out # << >>

\* The checks of use_fmt, level by level, on the call the state holds.
HexChecks ==
    /\ call.op = "use_fmt"
    /\ \/ is_identity(input.ty.tuple) \/ is_connection_id(input.ty.tuple)
       \/ is_identity(input.ty.field.algebraic_type) \/ is_connection_id(input.ty.field.algebraic_type)
       \/ input.name \in {Some(IDENTITY_TAG), Some(CONNECTION_ID_TAG)}

TimestampChecks ==
    /\ call.op = "use_fmt"
    /\ \/ is_timestamp(input.ty.tuple)
       \/ is_timestamp(input.ty.field.algebraic_type)
       \/ input.name = Some(TIMESTAMP_TAG)

DurationChecks ==
    /\ call.op = "use_fmt"
    /\ \/ is_time_duration(input.ty.tuple)
       \/ is_time_duration(input.ty.field.algebraic_type)
       \/ input.name = Some(TIME_DURATION_TAG)

\* C11: PsqlType::use_fmt returns exactly one decision with the precedence
\* hex > timestamp > duration > plain: Hex when any identity or connection-id
\* check (record, field type, name tag) holds, otherwise Timestamp when any
\* timestamp check holds, otherwise Duration when any duration check holds,
\* otherwise Satn.
C11_UseFmtPrecedence ==
    (Done /\ call.op = "use_fmt") =>
        /\ r \in {"Hex", "Timestamp", "Duration", "Satn"}
        /\ (r = "Hex") = HexChecks
        /\ (r = "Timestamp") = (~HexChecks /\ TimestampChecks)
        /\ (r = "Duration") = (~HexChecks /\ ~TimestampChecks /\ DurationChecks)
        /\ (r = "Satn") = (~HexChecks /\ ~TimestampChecks /\ ~DurationChecks)

\* C11 witness: use_fmt has returned Hex for a cursor and name that match a
\* hex check and a timestamp check at once.
C11_Witness ==
    Done /\ call.op = "use_fmt" /\ HexChecks /\ TimestampChecks /\ r = "Hex"

\* A record without special types and reserved tags, formatted with the
\* cursor seeded at its own type, on its first field.
PlainSelfSeeded ==
    /\ Done /\ call.op = "fmt_psql" /\ call.fault = None
    /\ input.typed /\ IsProduct(input) /\ PlainType(input.ty)
    /\ Len(input.ty.elements) >= 1
    /\ call.ty = PsqlType(input.ty, input.ty.elements[1], 0)

\* C12: while the PSQL formatter serializes the fields of a record whose
\* decisions are all plain, the cursor consulted for the k-th field
\* (zero-based) has the record type's k-th element as its field and k as its
\* index.  (All decisions being plain, the running index of the formatter is
\* k at the k-th field; nesting 1 is the record at the root.)
C12_CursorAdvance ==
    PlainSelfSeeded =>
        \A e \in w.fields :
            e.nesting = 1 =>
                /\ e.ty.tuple = input.ty
                /\ e.ty.idx = e.idx
                /\ e.ty.field = input.ty.elements[e.idx + 1]

RECURSIVE IndentedChars(_, _, _, _)
\* The characters of one written text, with d*4 spaces put before each
\* character that starts a line; `start` tells whether the text begins at
\* the start of a line, `bare_empty` whether a line holding only its newline
\* is left without indentation.
IndentedChars(s, d, start, bare_empty) ==
    IF s = << >> THEN << >>
    ELSE (IF start /\ ~(bare_empty /\ Head(s) = NL) THEN Spaces(d * 4) ELSE << >>)
         \o << Head(s) >> \o IndentedChars(Tail(s), d, Head(s) = NL, bare_empty)

RECURSIVE IndentedLines(_, _, _)
\* What a history of writes puts into the sink of an indented writer.
IndentedLines(log, start, bare_empty) ==
    IF log = << >> THEN << >>
    ELSE IndentedChars(Head(log).s, Head(log).indent, start, bare_empty)
         \o IndentedLines(Tail(log),
                          IF Head(log).s = << >> THEN start ELSE ends_with_newline(Head(log).s),
                          bare_empty)

\* C13 as claimed: for any sequence of write_str calls at any depths,
\* indentation of depth*4 spaces is emitted exactly once at the start of every
\* non-empty output line, with the depth in force when the line's first
\* fragment is written, never on a line holding only its newline and never
\* in the middle of a line.
C13_IndentOncePerNonEmptyLine ==
    Out = IF w.pretty THEN IndentedLines(input, TRUE, TRUE)
          ELSE Concat([i \in 1..Len(input) |-> input[i].s])

\* C13 amended: indentation of depth*4 spaces is emitted exactly once at the
\* start of every output line a fragment is written to, a line holding only
\* its newline included, with the depth in force when the line's first
\* fragment is written, and never in the middle of a line; an empty text
\* writes nothing, and a flat writer forwards the texts as they are.
C13_IndentOncePerLine ==
    Out = IF w.pretty THEN IndentedLines(input, TRUE, FALSE)
          ELSE Concat([i \in 1..Len(input) |-> input[i].s])

\* C13 witness: at depth 1 or more, a line holding only its newline and a
\* line starting with a character have been written.
C13_Witness ==
    /\ w.pretty /\ call.op = "write_str"
    /\ Contains(Out, << NL >> \o Spaces(4) \o << NL >>)
    /\ Contains(Out, << NL >> \o Spaces(4) \o << "b" >>)

\* A field history entry of flat mode whose decision is not plain and whose
\* element is the integer that decision has an alternate rendering for.
SpecialPrimitive(e) ==
    /\ ~e.pretty /\ e.r = "ok"
    /\ \/ e.use_fmt = "Hex" /\ e.elem.k \in {"U128", "U256"}
       \/ e.use_fmt \in {"Timestamp", "Duration"} /\ e.elem.k = "I64"

\* The alternate rendering of an integer under a decision.
AltRendering(decision, elem) ==
    CASE decision = "Hex" -> <<"0", "x">> \o hex_encode(to_be_bytes(elem.v, NumWidth(elem.k)))
      [] decision = "Timestamp" -> Timestamp_display(elem.v)
      [] decision = "Duration" -> TimeDuration_display(elem.v)

\* C14: in PSQL mode, whenever the decision computed for a field is not plain
\* (by the record, by the field's type or by the name tag alone), the text
\* written for the field is the alternate rendering of its value (hex of the
\* big-endian bytes, timestamp text or duration text), never the plain
\* decimal integer.
C14_DecisionsAgree ==
    (Done /\ call.op = "fmt_psql") =>
        \A e \in w.fields :
            SpecialPrimitive(e) => e.written = AltRendering(e.use_fmt, e.elem)

RECURSIVE OnlyRecords(_)
\* A value of records and leaves without parentheses only, so that every
\* parenthesis of its PSQL text is written by a PsqlNamedFormatter.
OnlyRecords(v) ==
    CASE v.k = "Product" -> \A i \in 1..Len(v.elements) : OnlyRecords(v.elements[i])
      [] v.k \in {"Array", "Sum"} -> FALSE
      [] v.k = "Str" -> TRUE
      [] OTHER -> TRUE

\* The parentheses of a text, in order.
Parens(s) == SelectSeq(s, LAMBDA c : c \in {"(", ")"})

\* No prefix of the text closes more than it has opened.
NeverClosedFirst(s) ==
    \A n \in 1..Len(s) : Count(SubSeq(s, 1, n), ")") <= Count(SubSeq(s, 1, n), "(")

\* C15: in PSQL mode, for every record (of any number of fields, zero
\* included, special and plain fields in any order) whose serialization
\* succeeds, PsqlNamedFormatter writes as many "(" as it writes ")" in end(),
\* and no ")" before its matching "(".
C15_BalancedDelimiters ==
    (Done /\ call.op = "fmt_psql" /\ r = "ok" /\ IsProduct(input) /\ OnlyRecords(input.v)) =>
        /\ Count(Out, "(") = Count(Out, ")")
        /\ NeverClosedFirst(Parens(Out))

\* C16: deriving the nested cursor never reads outside the nested record:
\* whenever PsqlNamedFormatter::serialize_element recurses into a field whose
\* type is a product, the index it picks the nested cursor's field with is
\* smaller than the number of elements of that product (also when the product
\* has fewer elements than the outer record, or none).
C16_NestedCursorInBounds ==
    (Done /\ call.op = "fmt_psql") =>
        /\ r # "panic"
        /\ \A e \in w.fields :
              e.ty.field.algebraic_type.k = "Product" =>
                  e.idx < Len(e.ty.field.algebraic_type.elements)

\* C17: the PSQL formatter does not carry the schema cursor into arrays and
\* sum-type variants: PsqlFormatter::serialize_array and serialize_variant
\* write exactly what the plain SATN formatter writes for the array or
\* variant, at the root of the value and as a field of a record, so that
\* everything below them is in plain SATN form.
C17_ArraysAndVariantsPlain ==
    (Done /\ call.op = "fmt_psql" /\ call.fault = None) =>
        /\ (IsArray(input) \/ IsSum(input)) =>
              /\ r = "ok"
              /\ Out = Satn_fmt(call.alternate, None, input).w.sink.out
        /\ \A e \in w.fields :
              (~e.pretty /\ e.r = "ok" /\ e.elem.k \in {"Array", "Sum"}) =>
                  e.written = FlatText(e.elem)

\* C17 witness: an array of 256-bit integers has been written as a field
\* under a cursor whose field is of the identity type, the decision for the
\* field being Hex.
C17_Witness ==
    /\ Done /\ call.op = "fmt_psql" /\ call.fault = None /\ r = "ok"
    /\ \E e \in w.fields :
          /\ ~e.pretty /\ e.r = "ok" /\ e.use_fmt = "Hex"
          /\ is_identity(e.ty.field.algebraic_type)
          /\ e.elem.k = "Array" /\ Len(e.elem.elems) >= 2
          /\ \A i \in 1..Len(e.elem.elems) : e.elem.elems[i].k = "U256"

====
